---- MODULE Spec2Model ----
(***************************************************************************)
(* A model of WebCrawler.go: the SafeRegister (visited list v and in-flight *)
(* counter o, every method one atomic step under its mutex), the unbuffered *)
(* result channel ch, the goroutines started by `go Crawl(...)` and the     *)
(* event loop of main.                                                      *)
(*                                                                          *)
(* A goroutine is named by the path of link indices that leads to it from   *)
(* the root task (<<>> is the root, Append(p, k) the task started for the   *)
(* k-th link of the page task p found).                                     *)
(***************************************************************************)
EXTENDS Integers, Sequences, FiniteSets, TLC

VARIABLES
    fetcher,    \* the fakeFetcher map: url -> [body, urls]
    seedUrl,    \* first argument of the root `go Crawl(...)` in main
    seedDepth,  \* second argument of the root `go Crawl(...)` in main
    v,          \* sreg.v, the visited register (a list of urls)
    o,          \* sreg.o, the in-flight counter
    tasks,      \* the goroutines running Crawl: path -> task record
    mpc,        \* where main is
    out         \* the lines main has printed, in order

vars == <<fetcher, seedUrl, seedDepth, v, o, tasks, mpc, out>>

----------------------------------------------------------------------------
(* Bounds of the exploration *)

MaxDepth == 3

MaxResults == 3

----------------------------------------------------------------------------
(* The fetcher data *)

MainDepth == 4

Root == "https://golang.org/"
Pkg  == "https://golang.org/pkg/"
Cmd  == "https://golang.org/cmd/"
Fmt  == "https://golang.org/pkg/fmt/"
Os   == "https://golang.org/pkg/os/"

\* the populated fakeFetcher of the source
fetcherData ==
    [u \in {Root, Pkg, Fmt, Os} |->
        CASE u = Root -> [body |-> "The Go Programming Language", urls |-> <<Pkg, Cmd>>]
          [] u = Pkg  -> [body |-> "Packages", urls |-> <<Root, Cmd, Fmt, Os>>]
          [] u = Fmt  -> [body |-> "Package fmt", urls |-> <<Root, Pkg>>]
          [] u = Os   -> [body |-> "Package os", urls |-> <<Root, Pkg>>]]

\* other fakeFetcher values: a two-page cycle whose pages both link to a
\* page that cannot be fetched, and a page D linked from two pages at once
cycleData ==
    [u \in {"A", "B"} |->
        CASE u = "A" -> [body |-> "page A", urls |-> <<"B", "X">>]
          [] u = "B" -> [body |-> "page B", urls |-> <<"A", "X">>]]

diamondData ==
    [u \in {"A", "B", "C", "D"} |->
        CASE u = "A" -> [body |-> "page A", urls |-> <<"B", "C">>]
          [] u = "B" -> [body |-> "page B", urls |-> <<"D">>]
          [] u = "C" -> [body |-> "page C", urls |-> <<"D">>]
          [] u = "D" -> [body |-> "page D", urls |-> <<"A">>]]

\* a page C that is one link and two links away from A
shortcutData ==
    [u \in {"A", "B", "C", "D"} |->
        CASE u = "A" -> [body |-> "page A", urls |-> <<"B", "C">>]
          [] u = "B" -> [body |-> "page B", urls |-> <<"C">>]
          [] u = "C" -> [body |-> "page C", urls |-> <<"D">>]
          [] u = "D" -> [body |-> "page D", urls |-> <<>>]]

Fetchers == {cycleData, diamondData, shortcutData}

\* every url a fetcher mentions, fetchable or not
Urls(f) == DOMAIN f \cup UNION {{f[u].urls[i] : i \in 1..Len(f[u].urls)} : u \in DOMAIN f}

\* a Fetch that answers an unknown url with an empty page instead of an error
Fetch_NoError(f, url) ==
    IF url \in DOMAIN f
    THEN [body |-> f[url].body, urls |-> f[url].urls, err |-> <<>>]
    ELSE [body |-> "", urls |-> <<>>, err |-> <<>>]

\* fakeFetcher.Fetch
Fetch(f, url) ==
    IF url \in DOMAIN f
    THEN [body |-> f[url].body, urls |-> f[url].urls, err |-> <<>>]
    ELSE [body |-> "", urls |-> <<>>, err |-> <<"not found:", url>>]

----------------------------------------------------------------------------
(* SafeRegister *)

\* SafeRegister.In: linear search of c.v
RECURSIVE InFrom(_, _, _)
InFrom(reg, url, i) ==
    IF i > Len(reg) THEN FALSE
    ELSE IF url = reg[i] THEN TRUE
    ELSE InFrom(reg, url, i + 1)

In(reg, url) == InFrom(reg, url, 1)

\* an Add that overwrites the list instead of appending to it
Add_Overwrite(reg, url) == <<url>>

\* SafeRegister.Add
Add(reg, url) == Append(reg, url)

\* an Inc that does not count
Inc_Missing(c) == c

\* SafeRegister.Inc / Dec / Count
Inc(c) == c + 1
Dec(c) == c - 1
Count(c) == c

----------------------------------------------------------------------------
(* Crawl *)

NoErr == <<>>

\* the frame of a goroutine created by `go Crawl(url, depth, fetcher)`
NewTask(url, depth) ==
    [url |-> url, depth |-> depth, pc |-> "Inc",
     body |-> "", urls |-> <<>>, err |-> NoErr,
     next |-> 1,          \* position of the range loop over urls
     fetched |-> FALSE,   \* history: this task has called fetcher.Fetch
     sent |-> <<>>]       \* history: the message this task has sent on ch

\* when main returns the process exits and no goroutine runs any more
Running(p) == p \in DOMAIN tasks /\ mpc # "done"

\* the base case test off by one, and the base case test left out
DepthExhausted_OffByOne(depth) == depth < 0
DepthExhausted_Missing(depth) == FALSE

\* the base case test of Crawl
DepthExhausted(depth) == depth <= 0

\* sreg.Inc(); defer sreg.Dec(); if depth <= 0 { return }
CrawlInc(p) ==
    /\ Running(p)
    /\ tasks[p].pc = "Inc"
    /\ o' = Inc(o)
    /\ tasks' = [tasks EXCEPT ![p].pc =
                    IF DepthExhausted(tasks[p].depth) THEN "Dec" ELSE "In"]
    /\ UNCHANGED <<fetcher, seedUrl, seedDepth, v, mpc, out>>

\* a Crawl whose `if err != nil` does not stop a task that found its url
\* in the register
CrawlIn_NoReturn(p) ==
    /\ Running(p)
    /\ tasks[p].pc = "In"
    /\ tasks' = IF In(v, tasks[p].url)
                THEN [tasks EXCEPT ![p].err = <<"already fetched", tasks[p].url>>,
                                   ![p].pc = "Add"]
                ELSE [tasks EXCEPT ![p].pc = "Fetch"]
    /\ UNCHANGED <<fetcher, seedUrl, seedDepth, v, o, mpc, out>>

\* if sreg.In(url) { err = fmt.Errorf("already fetched %s", url) } else ...
CrawlIn(p) ==
    /\ Running(p)
    /\ tasks[p].pc = "In"
    /\ tasks' = IF In(v, tasks[p].url)
                THEN [tasks EXCEPT ![p].err = <<"already fetched", tasks[p].url>>,
                                   ![p].pc = "SendErr"]
                ELSE [tasks EXCEPT ![p].pc = "Fetch"]
    /\ UNCHANGED <<fetcher, seedUrl, seedDepth, v, o, mpc, out>>

\* a Crawl that goes on to sreg.Add(url) whether or not Fetch failed
CrawlFetch_AddAlways(p) ==
    /\ Running(p)
    /\ tasks[p].pc = "Fetch"
    /\ LET r == Fetch(fetcher, tasks[p].url) IN
       tasks' = [tasks EXCEPT ![p].body = r.body,
                              ![p].urls = r.urls,
                              ![p].err = r.err,
                              ![p].fetched = TRUE,
                              ![p].pc = "Add"]
    /\ UNCHANGED <<fetcher, seedUrl, seedDepth, v, o, mpc, out>>

\* body, urls, err = fetcher.Fetch(url); if err != nil goes to the send
CrawlFetch(p) ==
    /\ Running(p)
    /\ tasks[p].pc = "Fetch"
    /\ LET r == Fetch(fetcher, tasks[p].url) IN
       tasks' = [tasks EXCEPT ![p].body = r.body,
                              ![p].urls = r.urls,
                              ![p].err = r.err,
                              ![p].fetched = TRUE,
                              ![p].pc = IF r.err # NoErr THEN "SendErr" ELSE "Add"]
    /\ UNCHANGED <<fetcher, seedUrl, seedDepth, v, o, mpc, out>>

\* a Crawl that starts the children of a page before it sends the page's
\* own result
CrawlAdd_SpawnFirst(p) ==
    /\ Running(p)
    /\ tasks[p].pc = "Add"
    /\ v' = Add(v, tasks[p].url)
    /\ tasks' = [tasks EXCEPT ![p].pc =
                    IF Len(tasks[p].urls) > 0 THEN "Spawn" ELSE "SendFound"]
    /\ UNCHANGED <<fetcher, seedUrl, seedDepth, o, mpc, out>>

\* sreg.Add(url)
CrawlAdd(p) ==
    /\ Running(p)
    /\ tasks[p].pc = "Add"
    /\ v' = Add(v, tasks[p].url)
    /\ tasks' = [tasks EXCEPT ![p].pc = "SendFound"]
    /\ UNCHANGED <<fetcher, seedUrl, seedDepth, o, mpc, out>>

\* the message a task at a send statement sends
Message(t) ==
    IF t.pc = "SendErr" THEN t.err
    ELSE <<"found:", t.url, t.body>>

\* where a task goes after its send: return (the deferred Dec) after an
\* error, the range loop over urls after a found
AfterSend(t) ==
    IF t.pc = "SendErr" THEN "Dec"
    ELSE IF t.next > Len(t.urls) THEN "Dec" ELSE "Spawn"

\* ch <- err.Error()  and  ch <- fmt.Sprintf("found: %s %q\n", url, body)
\* ch is unbuffered: the send completes together with the receive of
\* `for res := range ch` in main, which then prints res
CrawlSend(p) ==
    /\ Running(p)
    /\ tasks[p].pc \in {"SendErr", "SendFound"}
    /\ mpc = "range"
    /\ out' = Append(out, Message(tasks[p]))
    /\ mpc' = "check"
    /\ tasks' = [tasks EXCEPT ![p].sent = Message(tasks[p]),
                              ![p].pc = AfterSend(tasks[p])]
    /\ UNCHANGED <<fetcher, seedUrl, seedDepth, v, o>>

\* one iteration of: for _, u := range urls { go Crawl(u, depth-1, fetcher) }
CrawlSpawn(p) ==
    /\ Running(p)
    /\ tasks[p].pc = "Spawn"
    /\ LET t == tasks[p]
           k == t.next
           child == Append(p, k)
       IN tasks' = (child :> NewTask(t.urls[k], t.depth - 1)) @@
                   [tasks EXCEPT ![p].next = k + 1,
                                 ![p].pc = IF k + 1 > Len(t.urls) THEN "Dec" ELSE "Spawn"]
    /\ UNCHANGED <<fetcher, seedUrl, seedDepth, v, o, mpc, out>>

\* the deferred sreg.Dec() as Crawl returns
CrawlDec(p) ==
    /\ Running(p)
    /\ tasks[p].pc = "Dec"
    /\ o' = Dec(o)
    /\ tasks' = [tasks EXCEPT ![p].pc = "done"]
    /\ UNCHANGED <<fetcher, seedUrl, seedDepth, v, mpc, out>>

----------------------------------------------------------------------------
(* main *)

\* go Crawl("https://golang.org/", 4, fetcher)
MainGo ==
    /\ mpc = "go"
    /\ tasks' = (<<>> :> NewTask(seedUrl, seedDepth))
    /\ mpc' = "wait"
    /\ UNCHANGED <<fetcher, seedUrl, seedDepth, v, o, out>>

\* for sreg.Count() == 0 {}
MainWait ==
    /\ mpc = "wait"
    /\ mpc' = IF Count(o) = 0 THEN "wait" ELSE "outer"
    /\ UNCHANGED <<fetcher, seedUrl, seedDepth, v, o, tasks, out>>

\* for sreg.Count() > 0 { ... }: enter `range ch`, or leave the loop and return
MainOuter ==
    /\ mpc = "outer"
    /\ mpc' = IF Count(o) > 0 THEN "range" ELSE "done"
    /\ UNCHANGED <<fetcher, seedUrl, seedDepth, v, o, tasks, out>>

\* if sreg.Count() == 0 { break }
MainCheck ==
    /\ mpc = "check"
    /\ mpc' = IF Count(o) = 0 THEN "outer" ELSE "range"
    /\ UNCHANGED <<fetcher, seedUrl, seedDepth, v, o, tasks, out>>

----------------------------------------------------------------------------
(* Specifications *)

Start ==
    /\ v = <<>>
    /\ o = 0
    /\ tasks = <<>>
    /\ mpc = "go"
    /\ out = <<>>

\* any of the small fetchers, any seed it mentions, any depth up to MaxDepth
Init ==
    /\ fetcher \in Fetchers
    /\ seedUrl \in Urls(fetcher)
    /\ seedDepth \in 0..MaxDepth
    /\ Start

\* the program as written
InitMain ==
    /\ fetcher = fetcherData
    /\ seedUrl = Root
    /\ seedDepth = MainDepth
    /\ Start

Next ==
    \/ MainGo
    \/ MainWait
    \/ MainOuter
    \/ MainCheck
    \/ \E p \in DOMAIN tasks : CrawlInc(p)
    \/ \E p \in DOMAIN tasks : CrawlIn(p)
    \/ \E p \in DOMAIN tasks : CrawlFetch(p)
    \/ \E p \in DOMAIN tasks : CrawlAdd(p)
    \/ \E p \in DOMAIN tasks : CrawlSend(p)
    \/ \E p \in DOMAIN tasks : CrawlSpawn(p)
    \/ \E p \in DOMAIN tasks : CrawlDec(p)

Spec == Init /\ [][Next]_vars

\* every name a task can have in a crawl of depth at most MaxDepth
LinkCounts == UNION {{Len(f[u].urls) : u \in DOMAIN f} : f \in Fetchers}
MaxLinks == CHOOSE n \in LinkCounts : \A m \in LinkCounts : m <= n
TaskNames == UNION {[1..n -> 1..MaxLinks] : n \in 0..MaxDepth}

\* one step of the goroutine p
CrawlStep(p) ==
    \/ CrawlInc(p) \/ CrawlIn(p) \/ CrawlFetch(p) \/ CrawlAdd(p)
    \/ CrawlSend(p) \/ CrawlSpawn(p) \/ CrawlDec(p)

MainStep == MainGo \/ MainWait \/ MainOuter \/ MainCheck

\* the scheduler lets every goroutine that can run, and main, run eventually
SpecFair ==
    /\ Init /\ [][Next]_vars
    /\ WF_vars(MainStep)
    /\ \A p \in TaskNames : WF_vars(CrawlStep(p))

\* the program as written is explored until main has printed MaxResults lines
Exploring == Len(out) < MaxResults

NextMain ==
    \/ Exploring /\ MainGo
    \/ Exploring /\ MainWait
    \/ Exploring /\ MainOuter
    \/ Exploring /\ MainCheck
    \/ Exploring /\ \E p \in DOMAIN tasks : CrawlInc(p)
    \/ Exploring /\ \E p \in DOMAIN tasks : CrawlIn(p)
    \/ Exploring /\ \E p \in DOMAIN tasks : CrawlFetch(p)
    \/ Exploring /\ \E p \in DOMAIN tasks : CrawlAdd(p)
    \/ Exploring /\ \E p \in DOMAIN tasks : CrawlSend(p)
    \/ Exploring /\ \E p \in DOMAIN tasks : CrawlSpawn(p)
    \/ Exploring /\ \E p \in DOMAIN tasks : CrawlDec(p)

SpecMain == InitMain /\ [][NextMain]_vars

----------------------------------------------------------------------------
(* What a state records of the crawl so far *)

Ids == DOMAIN tasks

\* the tasks that have called fetcher.Fetch for url u
FetchCalls(u) == {p \in Ids : tasks[p].fetched /\ tasks[p].url = u}

\* the tasks whose Fetch returned the not-found error for url u
FailedFetches(u) == {p \in FetchCalls(u) : tasks[p].err # NoErr}

IsFound(m) == m # <<>> /\ m[1] = "found:"
IsNotFound(m) == m # <<>> /\ m[1] = "not found:"
IsAlready(m) == m # <<>> /\ m[1] = "already fetched"

\* the tasks that have sent "found: u ..." on ch
FoundSends(u) == {p \in Ids : IsFound(tasks[p].sent) /\ tasks[p].url = u}

\* how many of the lines main has printed are "found: u ..."
FoundPrinted(u) == Cardinality({i \in 1..Len(out) : IsFound(out[i]) /\ out[i][2] = u})

AllUrls == Urls(fetcher) \cup {seedUrl}

AllReturned == \A p \in Ids : tasks[p].pc = "done"

\* main has left its event loop
MainExited == mpc = "done"

----------------------------------------------------------------------------
(* C1 *)

\* C1: in every state of a crawl, no url has been passed to fetcher.Fetch by
\* more than one task.
C1_FetchAtMostOnce == \A u \in AllUrls : Cardinality(FetchCalls(u)) <= 1

(* C2 *)

\* C2: in every state of a crawl, at most one task has sent a "found: u"
\* message on ch for any url u.
C2_FoundAtMostOnce == \A u \in AllUrls : Cardinality(FoundSends(u)) <= 1

(* C3 *)

\* C3: when main has left its event loop in a crawl of seed depth >= 1, the
\* number of results it received equals the number of Crawl tasks started
\* with depth > 0.
C3_NoResultLost ==
    (MainExited /\ seedDepth >= 1) =>
        Len(out) = Cardinality({p \in Ids : tasks[p].depth > 0})

(* C4 *)

\* C4: whenever main has left its event loop, every task started by
\* `go Crawl(...)` has returned: none is pending start, running, blocked
\* sending or still about to start children.
C4_ExitOnlyWhenOver == MainExited => AllReturned

(* C10 *)

\* C10: once Fetch has returned an error for a url, no step of any task
\* calls Fetch for that url again.
C10_NoRetry ==
    [][\A p \in Ids :
          (~tasks[p].fetched /\ tasks'[p].fetched) => FailedFetches(tasks[p].url) = {}]_vars

(* C5 *)

Terminated == MainExited /\ AllReturned /\ Ids # {}

\* C5: a crawl of the cyclic graph A -> B -> A with seed depth >= 1
\* eventually reaches a state where every Crawl task has returned and main
\* has left its event loop.
C5_CycleCrawlTerminates ==
    (fetcher = cycleData /\ seedUrl \in DOMAIN cycleData /\ seedDepth >= 1) => <>Terminated

(* C6 *)

\* C6: when main leaves its event loop in the crawl of the reference data
\* from its root at depth 4, it has printed exactly one found line for each
\* of the four fetchable pages.
C6_FixtureFoundOnce ==
    MainExited => \A u \in DOMAIN fetcherData : FoundPrinted(u) = 1

(* C7 *)

\* C7: a task that has called Fetch has remaining depth >= 1 and is fewer
\* than seedDepth links away from the seed; a task with depth <= 0 has not
\* called Fetch, has sent nothing and is never at a statement that reads or
\* writes the visited register.
C7_DepthBound ==
    \A p \in Ids :
        /\ tasks[p].depth = seedDepth - Len(p)
        /\ tasks[p].fetched => (tasks[p].depth >= 1 /\ Len(p) < seedDepth)
        /\ tasks[p].depth <= 0 =>
              /\ ~tasks[p].fetched
              /\ tasks[p].sent = <<>>
              /\ tasks[p].pc \in {"Inc", "Dec", "done"}

\* a task of depth 0 has returned, in a crawl where a page was fetched
C7_Witness ==
    /\ \E p \in Ids : tasks[p].depth = 0 /\ tasks[p].pc = "done"
    /\ \E p \in Ids : tasks[p].fetched

(* C8 *)

\* C8: in a crawl of seed depth 0 nothing is ever printed or sent, Fetch is
\* never called, the root task starts no child and the visited register is
\* empty.
C8_DepthZeroNoResults ==
    seedDepth = 0 =>
        /\ out = <<>>
        /\ v = <<>>
        /\ \A p \in Ids : p = <<>> /\ ~tasks[p].fetched /\ tasks[p].sent = <<>>

\* the root task of a depth-0 crawl has returned
C8_Witness == seedDepth = 0 /\ Ids # {} /\ AllReturned

(* C9 *)

NotFoundSeed == <<"not found:", seedUrl>>

\* C9: in a crawl of depth >= 1 from a seed the fetcher does not know, the
\* root is the only task, the visited register stays empty, nothing but one
\* not-found message is ever sent, and the root has sent it by the time it
\* returns.
C9_UnknownSeedOneError ==
    (seedUrl \notin DOMAIN fetcher /\ seedDepth >= 1) =>
        /\ Ids \subseteq {<<>>}
        /\ v = <<>>
        /\ out \in {<<>>, <<NotFoundSeed>>}
        /\ \A p \in Ids :
              /\ tasks[p].sent \in {<<>>, NotFoundSeed}
              /\ tasks[p].pc \in {"Dec", "done"} =>
                    (tasks[p].sent = NotFoundSeed /\ out = <<NotFoundSeed>>)

\* the root of such a crawl has sent its error and returned
C9_Witness ==
    /\ seedUrl \notin DOMAIN fetcher /\ seedDepth >= 1
    /\ Ids # {} /\ AllReturned
    /\ out = <<NotFoundSeed>>

(* C11 *)

\* the root task has run its sreg.Inc()
RootStarted == <<>> \in Ids /\ tasks[<<>>].pc # "Inc"

\* C11: in every state after the root task has started, if Count() reads
\* zero then every task started by `go Crawl(...)` has returned.
C11_ZeroMeansNoTask == (RootStarted /\ Count(o) = 0) => AllReturned

(* C12 *)

\* the tasks that have run their Inc and not yet their deferred Dec
InFlight == {p \in Ids : tasks[p].pc \notin {"Inc", "done"}}

\* C12: the in-flight counter is never negative; it is the number of tasks
\* between their Inc and their Dec.
C12_CounterNotNegative == o >= 0 /\ o = Cardinality(InFlight)

\* the counter is back at zero after a task has run Inc and Dec, while
\* another task has been started
C12_Witness ==
    /\ o = 0
    /\ \E p \in Ids : tasks[p].pc = "done"
    /\ Cardinality(Ids) >= 2

(* C13 *)

\* reg is an initial part of reg2
IsPrefix(reg, reg2) ==
    /\ Len(reg) <= Len(reg2)
    /\ \A i \in 1..Len(reg) : reg[i] = reg2[i]

\* C13: no step removes a url from the visited register: the register
\* before a step is an initial part of the register after it, so In(url)
\* stays true once it is true.
C13_RegisterOnlyGrows ==
    [][IsPrefix(v, v') /\ \A u \in AllUrls : In(v, u) => In(v', u)]_vars

\* the register holds two urls
C13_Witness == Len(v) >= 2

(* C14 *)

\* the tasks on the way from the root to p, p excluded
Ancestors(p) == {SubSeq(p, 1, n) : n \in 0..(Len(p) - 1)}

\* the tasks started by p
Children(p) == {q \in Ids : Len(q) = Len(p) + 1 /\ SubSeq(q, 1, Len(p)) = p}

Printed(m) == \E i \in 1..Len(out) : out[i] = m

\* C14: in every step in which main receives the result of a task, every
\* task above it in the spawn tree has already sent its found result and
\* main has already printed it.
C14_ParentBeforeSubtree ==
    [][\A p \in Ids :
          (tasks[p].sent = <<>> /\ tasks'[p].sent # <<>>) =>
              /\ out' = Append(out, tasks'[p].sent)
              /\ \A q \in Ancestors(p) :
                    q \in Ids /\ IsFound(tasks[q].sent) /\ Printed(tasks[q].sent)]_vars

\* main has received the result of a task two links below the root
C14_Witness == \E p \in Ids : Len(p) >= 2 /\ tasks[p].sent # <<>>

(* C16 *)

\* the tasks that found their url in the visited register
Revisits == {p \in Ids : IsAlready(tasks[p].err)}

AlreadyMessage(p) == <<"already fetched", tasks[p].url>>

\* C16: a task of depth >= 1 that finds its url in the register goes to the
\* send of "already fetched <url>" (first formula); from then on it has not
\* called Fetch, is never at sreg.Add, has no children, has sent nothing but
\* that message, and has sent it once it returns (second formula).
C16_RevisitStep ==
    \A p \in Ids :
        (tasks[p].pc = "In" /\ tasks'[p].pc # "In" /\ In(v, tasks[p].url)) =>
            /\ tasks'[p].pc = "SendErr"
            /\ tasks'[p].err = AlreadyMessage(p)
            /\ v' = v

C16_RevisitState ==
    \A p \in Revisits :
        /\ tasks[p].depth >= 1
        /\ ~tasks[p].fetched
        /\ tasks[p].pc \in {"SendErr", "Dec", "done"}
        /\ Children(p) = {}
        /\ tasks[p].pc = "SendErr" => tasks[p].sent = <<>>
        /\ tasks[p].pc \in {"Dec", "done"} => tasks[p].sent = AlreadyMessage(p)

C16_RevisitHandling == []C16_RevisitState /\ [][C16_RevisitStep]_vars

\* a task that found its url in the register has sent its message and returned
C16_Witness == \E p \in Revisits : tasks[p].pc = "done" /\ Printed(AlreadyMessage(p))

(* C17 *)

\* C17: every url in the visited register is one for which some task's
\* Fetch has returned without error, and a task that is at the send of its
\* found result, or has sent it, has its url in the register.
C17_RegisterHoldsFetched ==
    /\ \A i \in 1..Len(v) :
          /\ FailedFetches(v[i]) = {}
          /\ \E p \in FetchCalls(v[i]) : tasks[p].err = NoErr
    /\ \A p \in Ids :
          (tasks[p].pc = "SendFound" \/ IsFound(tasks[p].sent)) => In(v, tasks[p].url)

\* a page is in the register and reported found, and another fetch has failed
C17_Witness ==
    /\ \E p \in Ids : IsFound(tasks[p].sent) /\ In(v, tasks[p].url)
    /\ \E p \in Ids : tasks[p].fetched /\ IsNotFound(tasks[p].sent)

(* C15 *)

Returned(p) == p \in Ids /\ tasks[p].pc = "done"

\* C15: every task started by `go Crawl(...)` eventually returns.
C15_EveryTaskReturns == \A p \in TaskNames : (p \in Ids) ~> Returned(p)

(* C18 *)

\* C18: in a crawl of seed depth 0 main eventually leaves its start-up wait
\* and its event loop.
C18_DepthZeroFinishes == (seedDepth = 0) => <>MainExited

(* C19 *)

\* the urls main has been sent a found result for
FoundSet == {tasks[p].url : p \in {q \in Ids : IsFound(tasks[q].sent)}}

\* every task has run to completion and every result has been received
Complete == Ids # {} /\ AllReturned

\* the links on the pages S
LinksOf(f, S) == UNION {{f[u].urls[i] : i \in 1..Len(f[u].urls)} : u \in S}

\* the fetchable urls reached from the urls S by fewer than n links
RECURSIVE WithinDepth(_, _, _)
WithinDepth(f, S, n) ==
    IF n <= 0 THEN {}
    ELSE LET here == S \cap DOMAIN f
         IN here \cup WithinDepth(f, LinksOf(f, here), n - 1)

\* what the crawl reports when every task meets its url at the greatest
\* remaining depth any path gives it
ReferenceFound == WithinDepth(fetcher, {seedUrl}, seedDepth)

\* C19: every complete execution of a crawl reports the same set of found
\* urls, the one of the execution in which every page is first met on a
\* shortest path from the seed.
C19_SameFoundSet == Complete => FoundSet = ReferenceFound

\* the two outcomes of the crawl of shortcutData from A at depth 3: each of
\* these is violated, by a complete execution that reports D and by one that
\* does not
C19_ShortPathFirst ==
    ~(Complete /\ fetcher = shortcutData /\ seedUrl = "A" /\ seedDepth = 3
        /\ FoundSet = ReferenceFound)

C19_LongPathFirst ==
    ~(Complete /\ fetcher = shortcutData /\ seedUrl = "A" /\ seedDepth = 3
        /\ FoundSet # ReferenceFound)

====
